---------------------------- MODULE Spec2Model ----------------------------
(***************************************************************************)
(* RAG-Playground: the hypothetical-embedding re-ranker of                 *)
(* HyQe_RAG/HyQe_RAG.ipynb (compute_final_scores) and the corrective       *)
(* confidence router of Corrective_RAG/Corrective__RAG.ipynb               *)
(* (evaluator_agent, llm_based_factual_check, algorithm_CRAG_inference).   *)
(*                                                                         *)
(* Specifications.  SpecRerank: compute_final_scores called on a retrieved   *)
(* list, any pool, query vector and lamda.  SpecRouter: evaluator_agent     *)
(* over every score list.  SpecCrag: the notebook's cells (evaluation, the  *)
(* def of knowledge_refine, inference) run in any order.  SpecJudge: the    *)
(* evaluation cell with a judge whose LLM calls may fail.  SpecHype:        *)
(* retrieve_top_chunks and retrieve_chunks of the HyPE notebook on any pool *)
(* and top_k.  SpecSelfRag: self_RAG of Self_RAG/Self_RAG.ipynb for every   *)
(* answer of its judges.  SpecRefine: knowledge_refine and the LLM behind  *)
(* it.  SpecBuild: the HyQe pool built node by node and the cache cell.    *)
(* SpecHyqe: the HyQe per-query cells, which build and then re-rank.       *)
(*                                                                         *)
(* Numbers.  Scores are exact fixed-point integers: a similarity and       *)
(* lamda are counted in 1/SimScale, a node score in 1/(SimScale*SimScale), *)
(* so that score + lamda * max_sim needs no division.  The vectors of the  *)
(* model have integral Euclidean norms and cosines that are whole          *)
(* multiples of 1/SimScale, so every cosine the code computes is exact.    *)
(***************************************************************************)
EXTENDS Integers, Sequences, FiniteSets, TLC

VARIABLES
    \* ---- HyQe re-ranker ----
    retrieved,         \* the retriever's result for the query: [idx, node_id, score]
    nodes,             \* the list object handed to compute_final_scores (mutated in place)
    entry,             \* nodes as they were on entry to the last call
    embedding_pairs,   \* the pool: sequence of [emb, node_id]
    query_embedding,   \* the query vector
    lamda,             \* the weight, in 1/SimScale
    rr,                \* "idle" | "returned" | "raised": how the last call ended
    calls,             \* number of compute_final_scores calls made
    \* ---- CRAG router ----
    thresh,            \* [correct, incorrect]: thresholds passed to evaluator_agent
    similarity_scores, \* scores of the source nodes of the last evaluation
    c,                 \* notebook global: verdict of the last evaluator_agent call
    response,          \* notebook global: the query whose retrieval `response` holds
    path,              \* which return statement of evaluator_agent produced c
    log,               \* collaborator calls of the last evaluation that returned, in order
    branch,            \* branch taken by the last algorithm_CRAG_inference
    k,                 \* knowledge handed to generator_agent by the last inference
    ilog,              \* collaborator calls of the last inference, in order
    refine_src,        \* the `response` bound as knowledge_refine's default source_nodes
    evaluated,         \* per query: the verdict its last evaluation returned (<<>>: none yet)
    attempts,          \* per judge call of the last evaluation: its failed llm.invoke attempts
    ev,                \* "none" | "returned" | "raised": how the last evaluation ended
    \* ---- HyPE retrieval ----
    q_embed,           \* the query vector
    E,                 \* the pool: sequence of [emb, node_id]
    top_k,             \* the number of chunks asked for
    top_nodes,         \* the list retrieve_top_chunks returned: [sim, node_id]
    hy,                \* "idle" | "returned" | "chunks" | "raised": how the call ended
    \* ---- Self-RAG ----
    contexts,          \* per retrieved document: the relevance judge's answer
    responses,         \* the candidate responses: [context, support, utility]
    answer,            \* the response self_RAG returned: [from, context]
    printed,           \* what the call printed about scores, in order
    sr,                \* "idle" | "direct" | "no_context" | "selected" | "raised"
    \* ---- CRAG knowledge_refine ----
    strip_score,       \* per knowledge strip: the relevance score the LLM gave it
    refined,           \* the text knowledge_refine returned
    rf,                \* "idle" | "returned"
    \* ---- HyQe pool build ----
    cell,              \* "idle" | "building": the notebook cell the kernel is running
    todo,              \* the nodes the running build has not reached yet
    base,              \* length of the pool when the last build began
    asked,             \* per node of the last build: the question vectors the LLM gave
    builds,            \* number of builds begun
    hypo_cache         \* the file hypo_cache.pkl: [written, pairs]

rrVars == <<retrieved, nodes, entry, embedding_pairs, query_embedding, lamda, rr, calls>>
crVars == <<thresh, similarity_scores, c, response, path, log, branch, k, ilog, refine_src,
            evaluated, attempts, ev>>
hyVars == <<q_embed, E, top_k, top_nodes, hy>>
sfVars == <<contexts, responses, answer, printed, sr>>
rfVars == <<strip_score, refined, rf>>
bdVars == <<cell, todo, base, asked, builds, hypo_cache>>
otherVars == <<sfVars, rfVars, bdVars>>
vars == <<rrVars, crVars, hyVars, otherVars>>

-----------------------------------------------------------------------------
(* Bounds *)

MaxNodes == 3
MaxPairs == 2
MaxCalls == 2
MaxScores == 2
MaxPool == 3
MaxTopK == 2

\* llm = ChatGoogleGenerativeAI(..., timeout=None, max_retries=2)
max_retries == 2

SimScale == 10 * 10

\* evaluator_agent's defaults correct_thresh=0.75, incorrect_thresh=0.4, in 1/100
DefaultThresholds == [correct |-> 75, incorrect |-> 40]

\* the queries the notebook evaluates and answers
Queries == {"q1", "q2"}

NodeIdSeq == <<"a", "b", "c", "d", "e">>
PoolIds == {"a", "b"}
NoId == ""

\* 0.10 and 0.50 in 1/(SimScale*SimScale)
BaseScores == {1000, 5000}

\* hypothetical vectors: norms 5, 1, 5, 0, and one of another dimension;
\* against the query <<4, 3>> their cosines are 0 (orthogonal), -0.80, 0.96
HypoVecs == {<<-3, 4>>, <<-1, 0>>, <<3, 4>>, <<0, 0>>, <<1, 0, 0>>}
QueryVecs == {<<4, 3>>, <<0, 0>>}
Lamdas == {0, 75}

-----------------------------------------------------------------------------
(* Vector arithmetic *)

RECURSIVE Dot(_, _)
Dot(u, v) ==
    IF u = <<>> \/ v = <<>> THEN 0
    ELSE Head(u) * Head(v) + Dot(Tail(u), Tail(v))

\* integer square root (exact on the vectors of the model)
ISqrt(n) == CHOOSE r \in 0..n : r * r <= n /\ (r + 1) * (r + 1) > n

\* np.linalg.norm
Norm(v) == ISqrt(Dot(v, v))

\* cosine_similarity of the normalised query and one normalised row, in 1/SimScale
Cosine(q, h) == (Dot(q, h) * SimScale) \div (Norm(q) * Norm(h))

Max(S) == CHOOSE x \in S : \A y \in S : y <= x

Min(S) == CHOOSE x \in S : \A y \in S : x <= y

-----------------------------------------------------------------------------
(* compute_final_scores *)

\* hypo_map[id]: the embeddings paired with node id, in pool order; a pair whose
\* node has a falsy id is skipped (if src_node.node_id)
RECURSIVE hypo_map(_, _)
hypo_map(pairs, id) ==
    IF pairs = <<>> THEN <<>>
    ELSE (IF Head(pairs).node_id # NoId /\ Head(pairs).node_id = id
          THEN <<Head(pairs).emb>> ELSE <<>>) \o hypo_map(Tail(pairs), id)

\* node_id in hypo_map  (a defaultdict: a key exists once something was appended)
InHypoMap(pairs, id) == hypo_map(pairs, id) # <<>>

\* The numpy / sklearn calls of one node raise (ValueError):
\*   np.array(hypo_map[node_id]) of rows of different lengths is ragged, and the
\*     norm over axis=1 has no axis 1;
\*   a zero-norm row, or the zero-norm query, is NaN after the division and
\*     cosine_similarity rejects NaN input;
\*   cosine_similarity rejects X and Y of different dimensions.
SimsRaise(q, hq_embs) ==
    \/ \E i, j \in DOMAIN hq_embs : Len(hq_embs[i]) # Len(hq_embs[j])
    \/ \E i \in DOMAIN hq_embs : Norm(hq_embs[i]) = 0
    \/ Norm(q) = 0
    \/ \E i \in DOMAIN hq_embs : Len(hq_embs[i]) # Len(q)

\* sims = cosine_similarity(query_vec, hq_embs)[0]
sims(q, hq_embs) == [i \in DOMAIN hq_embs |-> Cosine(q, hq_embs[i])]

\* max_sim kept at its initial 0 when every similarity is negative
max_sim_floor(pairs, q, id) ==
    IF InHypoMap(pairs, id)
    THEN LET s == sims(q, hypo_map(pairs, id))
         IN  Max({s[i] : i \in DOMAIN s} \cup {0})
    ELSE 0

\* max_sim of one node: 0 unless the node id is in hypo_map, else np.max(sims)
max_sim(pairs, q, id) ==
    IF InHypoMap(pairs, id)
    THEN LET s == sims(q, hypo_map(pairs, id))
         IN  Max({s[i] : i \in DOMAIN s})
    ELSE 0

NodeRaises(pairs, q, id) ==
    InHypoMap(pairs, id) /\ SimsRaise(q, hypo_map(pairs, id))

\* the weight forgotten: node.score + max_sim
FinalScoreNoWeight(score, lam, ms) == score + SimScale * ms

\* node.score = node.score + lamda * max_sim
FinalScore(score, lam, ms) == score + lam * ms

\* an unstable insertion: x goes before the elements of equal score
InsertDescUnstable(sorted, x) ==
    LET n == Cardinality({i \in DOMAIN sorted : sorted[i].score > x.score})
    IN  SubSeq(sorted, 1, n) \o <<x>> \o SubSeq(sorted, n + 1, Len(sorted))

\* list.sort(key=score, reverse=True): stable, descending.  x goes after every
\* element already placed whose score is >= its own.
InsertDesc(sorted, x) ==
    LET n == Cardinality({i \in DOMAIN sorted : sorted[i].score >= x.score})
    IN  SubSeq(sorted, 1, n) \o <<x>> \o SubSeq(sorted, n + 1, Len(sorted))

RECURSIVE SortDesc(_)
SortDesc(s) ==
    IF s = <<>> THEN <<>>
    ELSE InsertDesc(SortDesc(SubSeq(s, 1, Len(s) - 1)), s[Len(s)])

\* a loop that keeps only the nodes found in hypo_map
ScoreLoopDropping(ns, pairs, q, lam) ==
    SelectSeq([i \in DOMAIN ns |->
                  [ns[i] EXCEPT !.score =
                      IF NodeRaises(pairs, q, ns[i].node_id) THEN @
                      ELSE FinalScore(@, lam, max_sim(pairs, q, ns[i].node_id))]],
              LAMBDA n : InHypoMap(pairs, n.node_id))

\* The loop over nodes up to the first node whose similarity computation raises:
\* the nodes before it have their score rewritten, the others are untouched.
ScoreLoop(ns, pairs, q, lam) ==
    LET bad == {i \in DOMAIN ns : NodeRaises(pairs, q, ns[i].node_id)}
        stop == IF bad = {} THEN Len(ns) + 1 ELSE Min(bad)
    IN  [i \in DOMAIN ns |->
            IF i < stop
            THEN [ns[i] EXCEPT !.score =
                      FinalScore(@, lam, max_sim(pairs, q, ns[i].node_id))]
            ELSE ns[i]]

\* The whole call: [raised, nodes].  On an exception the list stays unsorted.
compute_final_scores(ns, pairs, q, lam) ==
    IF \E i \in DOMAIN ns : NodeRaises(pairs, q, ns[i].node_id)
    THEN [raised |-> TRUE, nodes |-> ScoreLoop(ns, pairs, q, lam)]
    ELSE [raised |-> FALSE, nodes |-> SortDesc(ScoreLoop(ns, pairs, q, lam))]

-----------------------------------------------------------------------------
(* Re-ranker: states and actions *)

\* retriever.retrieve(query): n nodes with distinct ids, each with a score
RetrievedLists ==
    UNION {[1..n -> BaseScores] : n \in 0..MaxNodes}

MkNodes(f) == [i \in DOMAIN f |-> [idx |-> i, node_id |-> NodeIdSeq[i], score |-> f[i]]]

Pairs == [emb : HypoVecs, node_id : PoolIds]
Pools == UNION {[1..n -> Pairs] : n \in 0..MaxPairs}

CrIdle ==
    /\ thresh = DefaultThresholds
    /\ similarity_scores = <<>>
    /\ c = <<>>
    /\ response = "none"
    /\ path = "none"
    /\ log = <<>>
    /\ branch = "none"
    /\ k = <<>>
    /\ ilog = <<>>
    /\ refine_src = "undefined"
    /\ evaluated = [query \in Queries |-> <<>>]
    /\ attempts = <<>>
    /\ ev = "none"

HyIdle ==
    /\ q_embed = <<4, 3>>
    /\ E = <<>>
    /\ top_k = 5
    /\ top_nodes = <<>>
    /\ hy = "idle"

SfIdle ==
    /\ contexts = <<>>
    /\ responses = <<>>
    /\ answer = <<>>
    /\ printed = <<>>
    /\ sr = "idle"

RfIdle ==
    /\ strip_score = <<>>
    /\ refined = <<>>
    /\ rf = "idle"

\* embedding_pairs = [] and no cache file yet
BdIdle ==
    /\ cell = "idle"
    /\ todo = <<>>
    /\ base = 0
    /\ asked = <<>>
    /\ builds = 0
    /\ hypo_cache = [written |-> "none", pairs |-> <<>>]

OtherIdle == SfIdle /\ RfIdle /\ BdIdle

InitRerank ==
    /\ \E f \in RetrievedLists : retrieved = MkNodes(f)
    /\ nodes = retrieved
    /\ entry = retrieved
    /\ embedding_pairs \in Pools
    /\ query_embedding \in QueryVecs
    /\ lamda \in Lamdas
    /\ rr = "idle"
    /\ calls = 0
    /\ CrIdle
    /\ HyIdle
    /\ OtherIdle

\* nodes_final = compute_final_scores(nodes, embedding_pairs, query_embedding, lamda)
Rerank ==
    /\ calls < MaxCalls
    /\ LET r == compute_final_scores(nodes, embedding_pairs, query_embedding, lamda)
       IN  /\ nodes' = r.nodes
           /\ rr' = IF r.raised THEN "raised" ELSE "returned"
    /\ entry' = nodes
    /\ calls' = calls + 1
    /\ UNCHANGED <<retrieved, embedding_pairs, query_embedding, lamda>>
    /\ UNCHANGED crVars
    /\ UNCHANGED hyVars
    /\ UNCHANGED otherVars

NextRerank == Rerank

SpecRerank == InitRerank /\ [][NextRerank]_vars

-----------------------------------------------------------------------------
(* Re-ranker: claims *)

\* position of the node with index idx in list s
PosOf(s, idx) == CHOOSE p \in DOMAIN s : s[p].idx = idx

\* the similarities the pool offers one id, computed from the pool alone
PoolSims(id) ==
    {Cosine(query_embedding, embedding_pairs[i].emb) :
        i \in {j \in DOMAIN embedding_pairs : embedding_pairs[j].node_id = id}}

BestSim(id) == IF PoolSims(id) = {} THEN 0 ELSE Max(PoolSims(id))

\* C1: the list compute_final_scores works on is, in every state (before the
\* call, after a return, after an exception), a permutation of the retrieved
\* list: same length, and every retrieved candidate is in it exactly once with
\* its id; none is created, duplicated or dropped.
C1_Permutation ==
    /\ Len(nodes) = Len(retrieved)
    /\ \A i \in DOMAIN retrieved :
          Cardinality({j \in DOMAIN nodes :
              /\ nodes[j].idx = retrieved[i].idx
              /\ nodes[j].node_id = retrieved[i].node_id}) = 1

\* a returned call that reordered three candidates, one of them without any
\* hypothetical embedding
C1_Witness ==
    /\ rr = "returned"
    /\ Len(nodes) = 3
    /\ nodes # entry
    /\ \E j \in DOMAIN nodes : PoolSims(nodes[j].node_id) = {}
    /\ \E j \in DOMAIN nodes : PoolSims(nodes[j].node_id) # {}

\* C2: after a call that returned, every candidate's score is its score on
\* entry (base_score) plus lamda times the maximum cosine similarity between
\* the query and the pool vectors paired with its own id, and plus 0 when the
\* pool pairs no vector with its id.
C2_FinalScoreFormula ==
    rr = "returned" =>
        \A j \in DOMAIN nodes :
            nodes[j].score =
                entry[PosOf(entry, nodes[j].idx)].score
                    + lamda * BestSim(nodes[j].node_id)

\* a returned call with lamda > 0 where a candidate has two hypothetical vectors
\* of different similarity and its score moved
C2_Witness ==
    /\ rr = "returned"
    /\ lamda > 0
    /\ \E j \in DOMAIN nodes :
          /\ Cardinality(PoolSims(nodes[j].node_id)) = 2
          /\ nodes[j].score # entry[PosOf(entry, nodes[j].idx)].score

\* a returned call where a candidate's best similarity is negative
C2_WitnessNegative ==
    /\ rr = "returned"
    /\ lamda > 0
    /\ \E j \in DOMAIN nodes : BestSim(nodes[j].node_id) < 0

\* C3: the returned list is in non-increasing order of score, and two
\* candidates of equal score keep the relative order they had on entry.
C3_SortedStable ==
    rr = "returned" =>
        \A i, j \in DOMAIN nodes :
            i < j =>
                /\ nodes[i].score >= nodes[j].score
                /\ nodes[i].score = nodes[j].score =>
                       PosOf(entry, nodes[i].idx) < PosOf(entry, nodes[j].idx)

\* a returned call that moved a candidate in front of two candidates of equal
\* final score
C3_Witness ==
    /\ rr = "returned"
    /\ Len(nodes) = 3
    /\ nodes[1].idx = 3
    /\ nodes[2].score = nodes[3].score
    /\ nodes[1].score > nodes[2].score

\* rank of entry position p in a stable descending sort by the entry score
BaseRank(p) ==
    1 + Cardinality({r \in DOMAIN entry : entry[r].score > entry[p].score})
      + Cardinality({r \in DOMAIN entry :
                        r < p /\ entry[r].score = entry[p].score})

\* C4: with lamda = 0 every candidate keeps the retriever's score in every
\* state, and the list a call returns is the entry list stably sorted by that
\* score, descending, whatever the pool holds.
C4_LambdaZero ==
    lamda = 0 =>
        /\ \A j \in DOMAIN nodes :
              nodes[j].score = retrieved[PosOf(retrieved, nodes[j].idx)].score
        /\ rr = "returned" =>
              \A p \in DOMAIN entry : nodes[BaseRank(p)] = entry[p]

\* lamda = 0, a pool that would have promoted the weaker candidate, and a return
\* that sorted an unsorted input
C4_Witness ==
    /\ lamda = 0
    /\ rr = "returned"
    /\ nodes # entry
    /\ \E i, j \in DOMAIN nodes :
          /\ i < j
          /\ BestSim(nodes[j].node_id) > 0
          /\ BestSim(nodes[i].node_id) = 0

\* C5: a zero-norm query or hypothetical vector counts as similarity 0: the
\* call returns, and a candidate whose only hypothetical vectors are zero-norm
\* keeps its entry score.  (Stated for pools whose vectors all have the
\* query's dimension.)
C5_ZeroNormIsZeroSim ==
    (/\ calls > 0
     /\ \A i \in DOMAIN embedding_pairs :
            Len(embedding_pairs[i].emb) = Len(query_embedding)
     /\ \/ Norm(query_embedding) = 0
        \/ \E i \in DOMAIN embedding_pairs : Norm(embedding_pairs[i].emb) = 0)
    => /\ rr = "returned"
       /\ \A j \in DOMAIN nodes :
             (\A i \in DOMAIN embedding_pairs :
                 embedding_pairs[i].node_id = nodes[j].node_id
                     => Norm(embedding_pairs[i].emb) = 0)
             => nodes[j].score = entry[PosOf(entry, nodes[j].idx)].score

\* C6: a pool holding any vector whose dimension differs from the query's makes
\* the call fail instead of returning a ranking.  (Stated for a non-empty
\* candidate list and a query of non-zero norm.)
C6_DimensionMismatchFails ==
    (/\ calls > 0
     /\ nodes # <<>>
     /\ Norm(query_embedding) # 0
     /\ \E i \in DOMAIN embedding_pairs :
            Len(embedding_pairs[i].emb) # Len(query_embedding))
    => rr = "raised"

-----------------------------------------------------------------------------
(* Text: a string is a sequence of one-character strings *)

Whitespace == {" ", "\n", "\t"}

LowerCase == <<"a", "b", "c", "d", "e", "f", "g", "h", "i", "j", "k", "l", "m",
               "n", "o", "p", "q", "r", "s", "t", "u", "v", "w", "x", "y", "z">>
UpperCase == <<"A", "B", "C", "D", "E", "F", "G", "H", "I", "J", "K", "L", "M",
               "N", "O", "P", "Q", "R", "S", "T", "U", "V", "W", "X", "Y", "Z">>

RECURSIVE lstrip(_)
lstrip(t) == IF t # <<>> /\ Head(t) \in Whitespace THEN lstrip(Tail(t)) ELSE t

RECURSIVE rstrip(_)
rstrip(t) ==
    IF t # <<>> /\ t[Len(t)] \in Whitespace
    THEN rstrip(SubSeq(t, 1, Len(t) - 1)) ELSE t

\* str.strip()
strip(t) == rstrip(lstrip(t))

\* str.upper()
upper(t) ==
    [i \in DOMAIN t |->
        IF \E n \in DOMAIN LowerCase : LowerCase[n] = t[i]
        THEN UpperCase[CHOOSE n \in DOMAIN LowerCase : LowerCase[n] = t[i]]
        ELSE t[i]]

CORRECT == <<"C", "O", "R", "R", "E", "C", "T">>
INCORRECT == <<"I", "N", "C", "O", "R", "R", "E", "C", "T">>
AMBIGUOUS == <<"A", "M", "B", "I", "G", "U", "O", "U", "S">>
DONTKNOW == <<"D", "O", "N", "T", "K", "N", "O", "W">>

-----------------------------------------------------------------------------
(* Collaborators of the router: what they may answer *)

\* node.score of the source nodes, in 1/100: below, at and above both thresholds
Scores == {10, 40, 50, 75, 90}
\* the retriever ranks its nodes: the scores come in non-increasing order
ScoreLists ==
    {sl \in UNION {[1..n -> Scores] : n \in 0..MaxScores} :
        \A i, j \in DOMAIN sl : i < j => sl[i] >= sl[j]}

\* the default thresholds, and a caller's pair with correct_thresh below
\* incorrect_thresh
Thresholds == {DefaultThresholds, [correct |-> 40, incorrect |-> 75]}

\* result.content of the judge's LLM call
JudgeOutputs ==
    { CORRECT,
      <<" ", "i", "n", "c", "o", "r", "r", "e", "c", "t", "\n">>,
      <<"A", "m", "b", "i", "g", "u", "o", "u", "s">>,
      <<"d", "o", "n", "t", "k", "n", "o", "w">>,
      <<"C", "O", "R", "R", "E", "C", "T", ".">>,
      <<"M", "a", "y", "b", "e">> }

\* search.run(inputs): no text, or some text found for the query searched
WebTexts(web_query) == {<<>>, <<[kind |-> "web", of |-> web_query]>>}

\* query_rewriter(query): the rewritten query
query_rewriter(query) == <<"rewritten", query>>

\* knowledge_refine's LLM answer over the documents of source_nodes
RefineOutputs(src) == {<<>>, <<[kind |-> "refined", of |-> src]>>}

Call(name, arg, out) == [call |-> name, arg |-> arg, out |-> out]

-----------------------------------------------------------------------------
(* evaluator_agent *)

\* llm_based_factual_check(query, chunks, web_context): the prompt has the web
\* section only when web_context is not ""; the verdict is the answer stripped
\* and upper-cased
PromptKind(web_context) == IF web_context = <<>> THEN "internal" ELSE "internal+web"

llm_based_factual_check(content) == upper(strip(content))

\* the verdicts llm_based_factual_check can return
JudgeAnswers == {llm_based_factual_check(content) : content \in JudgeOutputs}

\* the CORRECT test failing when there is no score at all
AllAboveNonEmpty(scores, correct_thresh) ==
    /\ scores # <<>>
    /\ \A i \in DOMAIN scores : scores[i] >= correct_thresh

\* all(score > correct_thresh ...)
AllAboveStrict(scores, correct_thresh) ==
    \A i \in DOMAIN scores : scores[i] > correct_thresh

\* all(score >= correct_thresh for score in similarity_scores)
AllAbove(scores, correct_thresh) ==
    \A i \in DOMAIN scores : scores[i] >= correct_thresh

\* any(score <= incorrect_thresh ...)
AnyBelow(scores, incorrect_thresh) ==
    \E i \in DOMAIN scores : scores[i] <= incorrect_thresh

\* all(score <= incorrect_thresh for score in similarity_scores)
AllBelow(scores, incorrect_thresh) ==
    \A i \in DOMAIN scores : scores[i] <= incorrect_thresh

\* the second judge call made whatever the first answer
IsDontKnowAlways(llm_verdict) == TRUE

\* the re-escalation test dropped
IsDontKnowNever(llm_verdict) == FALSE

\* llm_verdict == "DONTKNOW"
IsDontKnow(llm_verdict) == llm_verdict = DONTKNOW

\* The results evaluator_agent(query, ...) can return for the retrieved scores,
\* one per answer of its collaborators: [scores, verdict, path, log].
evaluator_agent(query, scores, correct_thresh, incorrect_thresh) ==
    LET qe == Call("query_engine", query, scores)
    IN
    IF AllAbove(scores, correct_thresh)
    THEN {[scores |-> scores, verdict |-> CORRECT, path |-> "fast_correct",
           log |-> <<qe>>]}
    ELSE IF AllBelow(scores, incorrect_thresh)
    THEN {[scores |-> scores, verdict |-> INCORRECT, path |-> "fast_incorrect",
           log |-> <<qe>>]}
    ELSE UNION {
        LET j1 == Call("judge", PromptKind(<<>>), llm_verdict)
        IN
        IF IsDontKnow(llm_verdict)
        THEN LET rewritten_q == query_rewriter(query)
             IN { [scores |-> scores,
                   verdict |-> final_confidence,
                   path |-> "rejudge",
                   log |-> <<qe, j1,
                             Call("query_rewriter", query, rewritten_q),
                             Call("search_web", rewritten_q, web_context),
                             Call("judge", PromptKind(web_context),
                                  final_confidence)>>] :
                  web_context \in WebTexts(rewritten_q),
                  final_confidence \in JudgeAnswers }
        ELSE {[scores |-> scores, verdict |-> llm_verdict, path |-> "judge",
               log |-> <<qe, j1>>]}
        : llm_verdict \in JudgeAnswers }

\* evaluator_agent tabulated over its arguments
EvaluatorResults ==
    [query \in Queries, scores \in ScoreLists, th \in Thresholds |->
        evaluator_agent(query, scores, th.correct, th.incorrect)]

-----------------------------------------------------------------------------
(* algorithm_CRAG_inference *)

\* The results algorithm_CRAG_inference(query) can have when the global verdict
\* is verdict and knowledge_refine's default source is src:
\* [branch, raised, k, ilog].  knowledge_refine is undefined (NameError) until
\* its cell has run.  Every branch ends in G = generator_agent(query, k); the
\* log entry of that call holds the query and the knowledge handed over.

\* the CORRECT branch also searching the web and appending what it finds
CorrectBranchSearching(query, src) ==
    IF src = "undefined"
    THEN {[branch |-> "CORRECT", raised |-> TRUE, k |-> <<>>, ilog |-> <<>>]}
    ELSE UNION {
           { [branch |-> "CORRECT", raised |-> FALSE,
              k |-> Internal_knowledge \o external_knowledge,
              ilog |-> <<Call("knowledge_refine", src, Internal_knowledge),
                         Call("search_web", query, external_knowledge),
                         Call("generator_agent", query,
                              Internal_knowledge \o external_knowledge)>>] :
             external_knowledge \in WebTexts(query) }
           : Internal_knowledge \in RefineOutputs(src) }

\* if(c=="CORRECT"): Internal_knowledge = knowledge_refine(query); k = Internal_knowledge
CorrectBranch(query, src) ==
    IF src = "undefined"
    THEN {[branch |-> "CORRECT", raised |-> TRUE, k |-> <<>>, ilog |-> <<>>]}
    ELSE { [branch |-> "CORRECT", raised |-> FALSE, k |-> Internal_knowledge,
            ilog |-> <<Call("knowledge_refine", src, Internal_knowledge),
                       Call("generator_agent", query, Internal_knowledge)>>] :
           Internal_knowledge \in RefineOutputs(src) }

\* the INCORRECT branch searching with the query as it was given
IncorrectBranchOriginalQuery(query) ==
    LET web_query == query_rewriter(query)
    IN  { [branch |-> "INCORRECT", raised |-> FALSE, k |-> external_knowledge,
           ilog |-> <<Call("query_rewriter", query, web_query),
                      Call("search_web", query, external_knowledge),
                      Call("generator_agent", query, external_knowledge)>>] :
          external_knowledge \in WebTexts(query) }

\* elif(c=="INCORRECT"): web_query = query_rewriter(query);
\* external_knowledge = search_web(web_query); k = external_knowledge
IncorrectBranch(query) ==
    LET web_query == query_rewriter(query)
    IN  { [branch |-> "INCORRECT", raised |-> FALSE, k |-> external_knowledge,
           ilog |-> <<Call("query_rewriter", query, web_query),
                      Call("search_web", web_query, external_knowledge),
                      Call("generator_agent", query, external_knowledge)>>] :
          external_knowledge \in WebTexts(web_query) }

\* the two parts joined the other way round
ExternalFirst(Internal_knowledge, external_knowledge) ==
    external_knowledge \o Internal_knowledge

\* k = Internal_knowledge + external_knowledge
BlendKnowledge(Internal_knowledge, external_knowledge) ==
    Internal_knowledge \o external_knowledge

\* elif(c=="AMBIGUOUS"): refine, rewrite, search, k = Internal + external
AmbiguousBranch(query, src) ==
    LET web_query == query_rewriter(query)
    IN
    IF src = "undefined"
    THEN {[branch |-> "AMBIGUOUS", raised |-> TRUE, k |-> <<>>, ilog |-> <<>>]}
    ELSE UNION {
           { [branch |-> "AMBIGUOUS", raised |-> FALSE,
              k |-> BlendKnowledge(Internal_knowledge, external_knowledge),
              ilog |-> <<Call("knowledge_refine", src, Internal_knowledge),
                         Call("query_rewriter", query, web_query),
                         Call("search_web", web_query, external_knowledge),
                         Call("generator_agent", query,
                              BlendKnowledge(Internal_knowledge,
                                             external_knowledge))>>] :
             external_knowledge \in WebTexts(web_query) }
           : Internal_knowledge \in RefineOutputs(src) }

\* no branch of the if / elif chain matches: k keeps its initial ""
NoBranch(query) ==
    {[branch |-> "fallthrough", raised |-> FALSE, k |-> <<>>,
      ilog |-> <<Call("generator_agent", query, <<>>)>>]}

algorithm_CRAG_inference(query, verdict, src) ==
    IF verdict = CORRECT THEN CorrectBranch(query, src)
    ELSE IF verdict = INCORRECT THEN IncorrectBranch(query)
    ELSE IF verdict = AMBIGUOUS THEN AmbiguousBranch(query, src)
    ELSE NoBranch(query)

-----------------------------------------------------------------------------
(* Router: states and actions *)

RrIdle ==
    /\ retrieved = <<>>
    /\ nodes = <<>>
    /\ entry = <<>>
    /\ embedding_pairs = <<>>
    /\ query_embedding = <<4, 3>>
    /\ lamda = 75
    /\ rr = "idle"
    /\ calls = 0

RouterStart ==
    /\ similarity_scores = <<>>
    /\ c = <<>>
    /\ response = "none"
    /\ path = "none"
    /\ log = <<>>
    /\ branch = "none"
    /\ k = <<>>
    /\ ilog = <<>>
    /\ refine_src = "undefined"
    /\ evaluated = [query \in Queries |-> <<>>]
    /\ attempts = <<>>
    /\ ev = "none"
    /\ RrIdle
    /\ HyIdle
    /\ OtherIdle

\* evaluator_agent called with any thresholds
InitRouter == thresh \in Thresholds /\ RouterStart

\* the notebook: every call leaves the thresholds at their defaults
InitCrag == thresh = DefaultThresholds /\ RouterStart

\* number of calls of one collaborator recorded in a call log
Count(lg, name) == Cardinality({i \in DOMAIN lg : lg[i].call = name})

\* every judge call of an evaluation answering at its first attempt
NoFailures(lg) == [i \in 1..Count(lg, "judge") |-> 0]

\* the assignment  s, c, response = ...  once evaluator_agent(query, ...) has
\* returned r, its judge calls having failed f[i] times before they answered
Returned(query, r, f) ==
    /\ similarity_scores' = r.scores
    /\ c' = r.verdict
    /\ response' = query
    /\ path' = r.path
    /\ log' = r.log
    /\ attempts' = f
    /\ ev' = "returned"
    /\ branch' = "none"
    /\ k' = <<>>
    /\ ilog' = <<>>
    /\ UNCHANGED <<thresh, refine_src>>
    /\ UNCHANGED rrVars
    /\ UNCHANGED hyVars
    /\ UNCHANGED otherVars

\* notebook cell:  s, c, response = evaluator_agent(query, vector_index)
\* for a retrieval whose scores are one of lists, the judge answering at once
EvaluateOver(lists) ==
    \E query \in Queries, scores \in lists :
        \E r \in EvaluatorResults[query, scores, thresh] :
            Returned(query, r, NoFailures(r.log))

\* evaluator_agent called as a function: no per-query record is kept
Evaluate == EvaluateOver(ScoreLists) /\ UNCHANGED evaluated

\* the retrievals of at most one source node
Top1Lists == {sl \in ScoreLists : Len(sl) <= 1}

\* the cell run for such a retrieval; the verdict is recorded for its query
EvaluateTop1 ==
    /\ EvaluateOver(Top1Lists)
    /\ evaluated' = [evaluated EXCEPT ![response'] = c']

\* notebook cell:  def knowledge_refine(query, source_nodes=response, ...)
\* The default is evaluated when the cell runs; with no `response` yet the def
\* fails and the function stays as it was.
DefKnowledgeRefine ==
    /\ response # "none"
    /\ refine_src' = response
    /\ UNCHANGED <<thresh, similarity_scores, c, response, path, log, branch, k, ilog,
                   evaluated, attempts, ev>>
    /\ UNCHANGED rrVars
    /\ UNCHANGED hyVars
    /\ UNCHANGED otherVars

\* notebook cell:  algorithm_CRAG_inference(query); it reads the global c, and
\* fails at once with no c (no evaluation yet)
Inference ==
    /\ path # "none"
    /\ \E query \in Queries :
          \E r \in algorithm_CRAG_inference(query, c, refine_src) :
              /\ branch' = IF r.raised THEN "raised" ELSE r.branch
              /\ k' = r.k
              /\ ilog' = r.ilog
    /\ UNCHANGED <<thresh, similarity_scores, c, response, path, log, refine_src,
                   evaluated, attempts, ev>>
    /\ UNCHANGED rrVars
    /\ UNCHANGED hyVars
    /\ UNCHANGED otherVars

\* evaluator_agent alone, over every score list and both threshold pairs
NextRouter == Evaluate

SpecRouter == InitRouter /\ [][NextRouter]_vars

\* the notebook's cells in any order: evaluation, the def of knowledge_refine,
\* inference
NextCrag == EvaluateTop1 \/ DefKnowledgeRefine \/ Inference

SpecCrag == InitCrag /\ [][NextCrag]_vars

-----------------------------------------------------------------------------
(* The judge's LLM call failing *)

\* failed attempts of one llm.invoke: up to max_retries failures are each
\* followed by a retry and the call answers; one failure more and the error of
\* the last attempt is raised to the caller
InvokeFailures == 0..(max_retries + 1)

Exhausted(n) == n > max_retries

\* the evaluation cell with a judge whose calls may fail.  evaluator_agent has
\* no try/except: the error of an exhausted call leaves it at once, the
\* assignment to s, c, response does not happen and the globals keep the
\* values of the last evaluation that returned.
EvaluateFlaky ==
    \E query \in Queries, scores \in Top1Lists :
        \E r \in EvaluatorResults[query, scores, thresh] :
            \E f \in [1..Count(r.log, "judge") -> InvokeFailures] :
                LET down == {i \in DOMAIN f : Exhausted(f[i])}
                IN  IF down = {}
                    THEN /\ Returned(query, r, f)
                         /\ evaluated' = [evaluated EXCEPT ![query] = r.verdict]
                    ELSE /\ attempts' = SubSeq(f, 1, Min(down))
                         /\ ev' = "raised"
                         /\ UNCHANGED <<thresh, similarity_scores, c, response, path,
                                        log, branch, k, ilog, refine_src, evaluated>>
                         /\ UNCHANGED rrVars
                         /\ UNCHANGED hyVars
                         /\ UNCHANGED otherVars

NextJudge == EvaluateFlaky

SpecJudge == InitCrag /\ [][NextJudge]_vars

-----------------------------------------------------------------------------
(* Router: claims *)

Evaluated == path # "none"

EveryScoreAtLeast(t) == \A i \in DOMAIN similarity_scores : similarity_scores[i] >= t
EveryScoreAtMost(t) == \A i \in DOMAIN similarity_scores : similarity_scores[i] <= t

\* C7: after an evaluation whose scores are all >= correct_thresh the verdict
\* is CORRECT and the evaluation called the judge, the query rewriter and the
\* web search zero times.
C7_FastPathCorrect ==
    (Evaluated /\ EveryScoreAtLeast(thresh.correct)) =>
        /\ c = CORRECT
        /\ Count(log, "judge") = 0
        /\ Count(log, "query_rewriter") = 0
        /\ Count(log, "search_web") = 0

\* default thresholds, two scores, one of them exactly at correct_thresh
C7_Witness ==
    /\ path = "fast_correct"
    /\ thresh.correct = 75
    /\ Len(similarity_scores) = 2
    /\ \E i \in DOMAIN similarity_scores : similarity_scores[i] = thresh.correct
    /\ \E i \in DOMAIN similarity_scores : similarity_scores[i] > thresh.correct

\* C8: after an evaluation whose scores are not all >= correct_thresh and are
\* all <= incorrect_thresh the verdict is INCORRECT and the judge was called
\* zero times; and the INCORRECT fast path is taken only when no score is above
\* incorrect_thresh: with one score above it (and not all >= correct_thresh)
\* the judge is asked.
C8_FastPathIncorrect ==
    /\ (/\ Evaluated
        /\ ~EveryScoreAtLeast(thresh.correct)
        /\ EveryScoreAtMost(thresh.incorrect))
       => (c = INCORRECT /\ path = "fast_incorrect" /\ Count(log, "judge") = 0)
    /\ path = "fast_incorrect" => EveryScoreAtMost(thresh.incorrect)
    /\ (/\ Evaluated
        /\ ~EveryScoreAtLeast(thresh.correct)
        /\ ~EveryScoreAtMost(thresh.incorrect))
       => Count(log, "judge") >= 1

\* default thresholds, two scores, one of them exactly at incorrect_thresh
C8_Witness ==
    /\ path = "fast_incorrect"
    /\ thresh.incorrect = 40
    /\ Len(similarity_scores) = 2
    /\ \E i \in DOMAIN similarity_scores : similarity_scores[i] = thresh.incorrect
    /\ \E i \in DOMAIN similarity_scores : similarity_scores[i] < thresh.incorrect

NeitherFastRule ==
    /\ Evaluated
    /\ ~EveryScoreAtLeast(thresh.correct)
    /\ ~EveryScoreAtMost(thresh.incorrect)

\* C9 as stated: when neither fast-path rule fires the judge is invoked exactly
\* once during the evaluation.
C9_JudgeExactlyOnce ==
    NeitherFastRule => Count(log, "judge") = 1

\* C9 amended: when neither fast-path rule fires the judge is invoked exactly
\* once if its first answer is not DONTKNOW, and exactly twice (the second time
\* after one query rewrite and one web search) if it is.
C9_JudgeOnceOrTwice ==
    NeitherFastRule =>
        /\ log[2].call = "judge"
        /\ log[2].out # DONTKNOW => Count(log, "judge") = 1
        /\ log[2].out = DONTKNOW =>
              /\ Count(log, "judge") = 2
              /\ Count(log, "query_rewriter") = 1
              /\ Count(log, "search_web") = 1

\* a mixed score list, a first answer DONTKNOW and a second judge call
C9_Witness ==
    /\ NeitherFastRule
    /\ Len(similarity_scores) = 2
    /\ log[2].out = DONTKNOW
    /\ Count(log, "judge") = 2

\* C10: the verdict the router returns (fast path, first judge answer, second
\* judge answer) is one of CORRECT, INCORRECT, AMBIGUOUS, UNKNOWN (the code's
\* DONTKNOW), and the terminal routing of algorithm_CRAG_inference takes one of
\* its branches for every verdict that reaches it.
C10_VerdictExhaustive ==
    /\ Evaluated => c \in {CORRECT, INCORRECT, AMBIGUOUS, DONTKNOW}
    /\ branch \in {"none", "raised", "CORRECT", "INCORRECT", "AMBIGUOUS"}

\* the tokens the judge is asked to answer with
ExpectedTokens == {CORRECT, INCORRECT, AMBIGUOUS, DONTKNOW}

\* some judge call of the last evaluation answered with something else
JudgeUnparsed ==
    \E i \in DOMAIN log : log[i].call = "judge" /\ log[i].out \notin ExpectedTokens

\* the algorithm_CRAG_inference that followed the last evaluation ran to its end
InferenceDone == branch \notin {"none", "raised"}

\* C11: when a judge call of an evaluation answers with something that is not
\* one of the expected tokens, the evaluation does not return that text as its
\* verdict, and no generation follows that evaluation.
C11_UnparseableJudgeFails ==
    JudgeUnparsed =>
        /\ \A i \in DOMAIN log :
              (log[i].call = "judge" /\ log[i].out \notin ExpectedTokens)
                  => c # log[i].out
        /\ Count(ilog, "generator_agent") = 0

\* C12: whenever the first judge call answers DONTKNOW the second judge call is
\* made (after the rewrite and the web search), and the verdict the evaluation
\* returns, the one the terminal action reads, is never DONTKNOW.
C12_UnknownOnlyIntermediate ==
    /\ (path \in {"judge", "rejudge"} /\ log[2].out = DONTKNOW) =>
          (path = "rejudge" /\ Count(log, "judge") = 2)
    /\ Evaluated => c # DONTKNOW

\* C13: when the verdict is CORRECT and the inference has run, it made exactly
\* two calls, knowledge_refine and then generator_agent; the knowledge handed
\* to generator_agent is exactly what knowledge_refine returned; the query
\* rewriter and the web search were not called and no web text is in k.
C13_CorrectUsesRefineOnly ==
    (c = CORRECT /\ InferenceDone) =>
        /\ branch = "CORRECT"
        /\ Len(ilog) = 2
        /\ ilog[1].call = "knowledge_refine"
        /\ ilog[2].call = "generator_agent"
        /\ ilog[2].out = ilog[1].out
        /\ k = ilog[1].out
        /\ Count(ilog, "query_rewriter") = 0
        /\ Count(ilog, "search_web") = 0
        /\ \A i \in DOMAIN k : k[i].kind # "web"

\* a CORRECT verdict, and an inference that refined some text out of the
\* candidates and generated from it
C13_Witness ==
    /\ c = CORRECT
    /\ branch = "CORRECT"
    /\ k # <<>>
    /\ Count(ilog, "generator_agent") = 1

\* C14: when the verdict is INCORRECT and the inference has run, it called the
\* query rewriter with the query, the web search with what the rewriter
\* returned (which is not the query itself), and generator_agent with exactly
\* the text the search returned; knowledge_refine was not called and no refined
\* internal text is in k.
C14_IncorrectUsesWebOnly ==
    (c = INCORRECT /\ InferenceDone) =>
        /\ branch = "INCORRECT"
        /\ Len(ilog) = 3
        /\ ilog[1].call = "query_rewriter"
        /\ ilog[1].arg = ilog[3].arg
        /\ ilog[2].call = "search_web"
        /\ ilog[2].arg # ilog[1].arg
        /\ ilog[2].arg = ilog[1].out
        /\ ilog[3].call = "generator_agent"
        /\ ilog[3].out = ilog[2].out
        /\ k = ilog[2].out
        /\ Count(ilog, "knowledge_refine") = 0
        /\ \A i \in DOMAIN k : k[i].kind # "refined"

\* an INCORRECT verdict, and an inference whose web search found some text
C14_Witness ==
    /\ c = INCORRECT
    /\ branch = "INCORRECT"
    /\ k # <<>>
    /\ Count(ilog, "search_web") = 1

\* C15: when the verdict is AMBIGUOUS and the inference has run, it called
\* knowledge_refine, the query rewriter, the web search with the rewritten
\* query, and generator_agent, in that order; the knowledge handed over is what
\* knowledge_refine returned followed by what the search returned, neither
\* part left out.
C15_AmbiguousInternalThenExternal ==
    (c = AMBIGUOUS /\ InferenceDone) =>
        /\ branch = "AMBIGUOUS"
        /\ Len(ilog) = 4
        /\ ilog[1].call = "knowledge_refine"
        /\ ilog[2].call = "query_rewriter"
        /\ ilog[2].arg = ilog[4].arg
        /\ ilog[3].call = "search_web"
        /\ ilog[3].arg = ilog[2].out
        /\ ilog[4].call = "generator_agent"
        /\ k = ilog[1].out \o ilog[3].out
        /\ ilog[4].out = k

\* an AMBIGUOUS verdict, refined text and web text both non-empty
C15_Witness ==
    /\ c = AMBIGUOUS
    /\ branch = "AMBIGUOUS"
    /\ Len(k) = 2
    /\ k[1].kind = "refined"
    /\ k[2].kind = "web"

\* C16: generator_agent is called only by an inference that took one of the
\* three branches, and never with empty knowledge.
C16_NoGenerationWithoutKnowledge ==
    \A i \in DOMAIN ilog :
        ilog[i].call = "generator_agent" =>
            /\ branch \in {"CORRECT", "INCORRECT", "AMBIGUOUS"}
            /\ ilog[i].out # <<>>

\* the retries made by an llm.invoke with n failed attempts
Retries(n) == IF Exhausted(n) THEN max_retries ELSE n

\* C17: no judge call of an evaluation is retried more than once, and when the
\* first attempt and the retry of a judge call both fail the evaluation ends
\* with the error.
C17_JudgeRetriedAtMostOnce ==
    \A i \in DOMAIN attempts :
        /\ Retries(attempts[i]) <= 1
        /\ attempts[i] >= 2 => ev = "raised"

\* C18: an inference run for query q (the query handed to generator_agent)
\* took its branch on the verdict the last evaluation of q returned, and every
\* knowledge_refine it called worked on the retrieval of q.
C18_InferenceUsesOwnEvaluation ==
    ilog # <<>> =>
        LET q == ilog[Len(ilog)].arg
        IN  /\ evaluated[q] # <<>>
            /\ c = evaluated[q]
            /\ \A i \in DOMAIN ilog :
                  ilog[i].call = "knowledge_refine" => ilog[i].arg = q

-----------------------------------------------------------------------------
(* HyPE retrieval: retrieve_top_chunks *)

HypeIds == {"a", "b", "c"}

\* hypothetical question vectors: cosines 0.96, 0 and -0.80 against the query
\* <<4, 3>>, and one vector of another dimension
HypeVecs == {<<3, 4>>, <<-3, 4>>, <<-1, 0>>, <<1, 0, 0>>}

HypePairs == [emb : HypeVecs, node_id : HypeIds]
HypePools == UNION {[1..n -> HypePairs] : n \in 0..MaxPool}
TopKs == 0..MaxTopK

\* sklearn's cosine_similarity of two raw vectors: each is divided by its norm,
\* a zero norm being replaced by 1, so a zero vector has similarity 0
cosine_similarity(q, emb) ==
    IF Norm(q) = 0 \/ Norm(emb) = 0 THEN 0 ELSE Cosine(q, emb)

\* cosine_similarity rejects vectors of different dimensions (ValueError)
RetrieveRaises(q, pool) == \E i \in DOMAIN pool : Len(pool[i].emb) # Len(q)

\* for emb, node in E: similarities.append((sim, node))
similarities(q, pool) ==
    [i \in DOMAIN pool |->
        [sim |-> cosine_similarity(q, pool[i].emb), node_id |-> pool[i].node_id]]

\* a sort in ascending order of similarity
InsertBySimAscending(sorted, x) ==
    LET n == Cardinality({i \in DOMAIN sorted : sorted[i].sim <= x.sim})
    IN  SubSeq(sorted, 1, n) \o <<x>> \o SubSeq(sorted, n + 1, Len(sorted))

\* similarities.sort(reverse=True, key=lambda x: x[0]): stable, descending
InsertBySim(sorted, x) ==
    LET n == Cardinality({i \in DOMAIN sorted : sorted[i].sim >= x.sim})
    IN  SubSeq(sorted, 1, n) \o <<x>> \o SubSeq(sorted, n + 1, Len(sorted))

RECURSIVE SortBySim(_)
SortBySim(s) ==
    IF s = <<>> THEN <<>>
    ELSE InsertBySim(SortBySim(SubSeq(s, 1, Len(s) - 1)), s[Len(s)])

\* the loop over the sorted list: a node not seen yet is appended; the test
\* len(top_nodes) >= top_k comes at the end of each round
RECURSIVE TopLoop(_, _, _, _)
TopLoop(sorted, seen, top, kk) ==
    IF sorted = <<>> THEN top
    ELSE LET x == Head(sorted)
             fresh == x.node_id \notin seen
             top2 == IF fresh THEN Append(top, x) ELSE top
             seen2 == IF fresh THEN seen \cup {x.node_id} ELSE seen
         IN  IF Len(top2) >= kk THEN top2
             ELSE TopLoop(Tail(sorted), seen2, top2, kk)

\* retrieve_top_chunks(q_embed, E, top_k): [raised, top_nodes]
retrieve_top_chunks(q, pool, kk) ==
    IF RetrieveRaises(q, pool)
    THEN [raised |-> TRUE, top_nodes |-> <<>>]
    ELSE [raised |-> FALSE,
          top_nodes |-> TopLoop(SortBySim(similarities(q, pool)), {}, <<>>, kk)]

InitHype ==
    /\ q_embed \in QueryVecs
    /\ E \in HypePools
    /\ top_k \in TopKs
    /\ top_nodes = <<>>
    /\ hy = "idle"
    /\ CrIdle
    /\ RrIdle
    /\ OtherIdle

\* notebook cell:  top_nodes = retrieve_top_chunks(q_embed, embedding_pairs, top_k)
Retrieve ==
    /\ hy = "idle"
    /\ LET r == retrieve_top_chunks(q_embed, E, top_k)
       IN  /\ top_nodes' = r.top_nodes
           /\ hy' = IF r.raised THEN "raised" ELSE "returned"
    /\ UNCHANGED <<q_embed, E, top_k>>
    /\ UNCHANGED rrVars
    /\ UNCHANGED crVars
    /\ UNCHANGED otherVars

\* the squared L2 distance IndexFlatL2 computes between the query and an
\* indexed vector, both divided by their norm when it is not zero
\* (build_faiss_index, retrieve_chunks), in 1/SimScale: 2 - 2 cos for two
\* unit vectors, 1 when exactly one of the two is the zero vector, 0 for two
faiss_distance(q, emb) ==
    IF Norm(q) = 0 /\ Norm(emb) = 0 THEN 0
    ELSE IF Norm(q) = 0 \/ Norm(emb) = 0 THEN SimScale
    ELSE 2 * SimScale - 2 * Cosine(q, emb)

\* index.add(np.array(question_embeddings)) on IndexFlatL2(768) and
\* index.search: the array must have two axes of the index's dimension, so
\* an empty pool or a vector of another dimension raises
FaissRaises(q, pool) ==
    pool = <<>> \/ \E i \in DOMAIN pool : Len(pool[i].emb) # Len(q)

\* the positions of the pool in the order of the search: nearest first,
\* equal distances in the order of insertion
InsertByDistance(q, pool, sorted, i) ==
    LET n == Cardinality({j \in DOMAIN sorted :
                 faiss_distance(q, pool[sorted[j]].emb) <= faiss_distance(q, pool[i].emb)})
    IN  SubSeq(sorted, 1, n) \o <<i>> \o SubSeq(sorted, n + 1, Len(sorted))

RECURSIVE NearestFirst(_, _, _)
NearestFirst(q, pool, n) ==
    IF n = 0 THEN <<>>
    ELSE InsertByDistance(q, pool, NearestFirst(q, pool, n - 1), n)

\* _, I = faiss_index.search(np.array([q_vec]), top_k): I[0] holds top_k
\* labels, the nearest vectors' positions (counted from 0) and -1 for every
\* label the index had no vector for
faiss_search(q, pool, kk) ==
    LET order == NearestFirst(q, pool, Len(pool))
    IN  [j \in 1..kk |-> IF j <= Len(order) THEN order[j] - 1 ELSE -1]

\* metadata[idx] of Python: a negative index counts from the end
metadata_at(pool, idx) == IF idx >= 0 THEN pool[idx + 1] ELSE pool[Len(pool) + 1 + idx]

\* for idx in I[0]: if idx < len(metadata): ... if node_id not in seen_ids
RECURSIVE ChunkLoop(_, _, _, _)
ChunkLoop(labels, pool, seen_ids, top_chunks) ==
    IF labels = <<>> THEN top_chunks
    ELSE LET idx == Head(labels)
         IN  IF idx < Len(pool)
             THEN LET node_id == metadata_at(pool, idx).node_id
                  IN  IF node_id \notin seen_ids
                      THEN ChunkLoop(Tail(labels), pool, seen_ids \cup {node_id},
                                     Append(top_chunks, [node_id |-> node_id]))
                      ELSE ChunkLoop(Tail(labels), pool, seen_ids, top_chunks)
             ELSE ChunkLoop(Tail(labels), pool, seen_ids, top_chunks)

\* retrieve_chunks(query, faiss_index, metadata, embed_model, top_k) over the
\* index build_faiss_index made of the pool: [raised, top_chunks]
retrieve_chunks(q, pool, kk) ==
    IF FaissRaises(q, pool)
    THEN [raised |-> TRUE, top_chunks |-> <<>>]
    ELSE [raised |-> FALSE,
          top_chunks |-> ChunkLoop(faiss_search(q, pool, kk), pool, {}, <<>>)]

\* notebook cells:  faiss_index, metadata = build_faiss_index(...) and
\* retrieve_chunks(query, faiss_index, metadata, embed_model, top_k)
RetrieveFaiss ==
    /\ hy = "idle"
    /\ LET r == retrieve_chunks(q_embed, E, top_k)
       IN  /\ top_nodes' = r.top_chunks
           /\ hy' = IF r.raised THEN "raised" ELSE "chunks"
    /\ UNCHANGED <<q_embed, E, top_k>>
    /\ UNCHANGED rrVars
    /\ UNCHANGED crVars
    /\ UNCHANGED otherVars

NextHype == Retrieve \/ RetrieveFaiss

SpecHype == InitHype /\ [][NextHype]_vars

-----------------------------------------------------------------------------
(* HyPE retrieval: claims *)

\* the candidate ids of the pool
DistinctIds == {E[i].node_id : i \in DOMAIN E}

\* the ids of the returned list
ReturnedIds == {top_nodes[i].node_id : i \in DOMAIN top_nodes}

\* the greatest similarity of the query to a hypothetical vector of candidate id
BestQuestion(id) ==
    Max({cosine_similarity(q_embed, E[i].emb) :
            i \in {j \in DOMAIN E : E[j].node_id = id}})

\* C19: a returned list holds no candidate id twice, and its length is the
\* smaller of top_k and the number of distinct candidate ids of the pool.
C19_TopKDistinct ==
    hy = "returned" =>
        /\ \A i, j \in DOMAIN top_nodes :
              i # j => top_nodes[i].node_id # top_nodes[j].node_id
        /\ Len(top_nodes) = Min({top_k, Cardinality(DistinctIds)})

\* C20: every returned candidate carries the greatest similarity among its
\* hypothetical vectors; the returned list is in non-increasing order of it;
\* and no candidate of the pool left out of the list has a greatest similarity
\* strictly above that of a returned one.
C20_BestQuestionWins ==
    hy = "returned" =>
        /\ \A i \in DOMAIN top_nodes :
              top_nodes[i].sim = BestQuestion(top_nodes[i].node_id)
        /\ \A i, j \in DOMAIN top_nodes :
              i < j => top_nodes[i].sim >= top_nodes[j].sim
        /\ \A id \in DistinctIds \ ReturnedIds :
              \A i \in DOMAIN top_nodes : BestQuestion(id) <= top_nodes[i].sim

\* the pool [(v1, A), (v2, A), (v3, B)] with v2 the better question of A and
\* top_k = 2: A is returned first, with the similarity of v2
C20_Witness ==
    /\ hy = "returned"
    /\ Len(E) = 3
    /\ top_k = 2
    /\ E[1].node_id = E[2].node_id
    /\ E[3].node_id # E[1].node_id
    /\ cosine_similarity(q_embed, E[2].emb) > cosine_similarity(q_embed, E[1].emb)
    /\ cosine_similarity(q_embed, E[1].emb) > cosine_similarity(q_embed, E[3].emb)
    /\ Len(top_nodes) = 2
    /\ top_nodes[1].node_id = E[1].node_id
    /\ top_nodes[1].sim = cosine_similarity(q_embed, E[2].emb)

\* three candidates, top_k = 1: two candidates are left out
C20_WitnessOmitted ==
    /\ hy = "returned"
    /\ Cardinality(DistinctIds) = 3
    /\ top_k = 1
    /\ Len(top_nodes) = 1
    /\ \E id \in DistinctIds \ ReturnedIds : BestQuestion(id) < top_nodes[1].sim

-----------------------------------------------------------------------------
(* Router: ordering, one-shot evaluation, precedence of Rule 1 *)

\* C25: when the first judge call answers DONTKNOW the evaluation goes on with
\* exactly one query rewrite, one web search with the rewritten query and one
\* second judge call, in this order, and the second judge call is made with
\* the internal passages and the web context, whatever the search returned.
C25_RuleThreeOrdering ==
    (NeitherFastRule /\ log[2].out = DONTKNOW) =>
        /\ Len(log) = 5
        /\ log[3].call = "query_rewriter"
        /\ log[4].call = "search_web"
        /\ log[4].arg = log[3].out
        /\ log[5].call = "judge"
        /\ log[5].arg = "internal+web"

\* C26: an evaluation that has returned called the judge at most twice; it
\* called it a second time only when the first answer was DONTKNOW; and when
\* it called the judge at all, the judge's last answer is the last thing the
\* evaluation did and is the verdict it returned.
C26_OneShot ==
    Evaluated =>
        /\ Count(log, "judge") <= 2
        /\ Count(log, "judge") = 2 => log[2].out = DONTKNOW
        /\ Count(log, "judge") >= 1 =>
              /\ log[Len(log)].call = "judge"
              /\ c = log[Len(log)].out

\* two scores, a first answer DONTKNOW, and a second answer DONTKNOW returned
\* as it is, without a third call
C26_Witness ==
    /\ Evaluated
    /\ Len(similarity_scores) = 2
    /\ Count(log, "judge") = 2
    /\ log[Len(log)].out = DONTKNOW
    /\ c = DONTKNOW

\* C28: when the scores pass both tests of Rule 1 (all >= correct_thresh and
\* all <= incorrect_thresh) the verdict is CORRECT, by the fast path, with no
\* judge call.
C28_CorrectBeforeIncorrect ==
    (/\ Evaluated
     /\ EveryScoreAtLeast(thresh.correct)
     /\ EveryScoreAtMost(thresh.incorrect))
    => (c = CORRECT /\ path = "fast_correct" /\ Count(log, "judge") = 0)

\* correct_thresh below incorrect_thresh and two scores between them
C28_Witness ==
    /\ Evaluated
    /\ thresh.correct < thresh.incorrect
    /\ Len(similarity_scores) = 2
    /\ EveryScoreAtLeast(thresh.correct)
    /\ EveryScoreAtMost(thresh.incorrect)
    /\ c = CORRECT

\* the default thresholds and no retrieved node at all
C28_WitnessEmpty ==
    /\ Evaluated
    /\ thresh = DefaultThresholds
    /\ similarity_scores = <<>>
    /\ c = CORRECT

-----------------------------------------------------------------------------
(* Re-ranker: repeated calls *)

\* C27: after any number of calls that returned, every candidate's score is
\* the score the retriever gave it plus lamda times its best similarity, the
\* bonus counted once.
C27_RerankIdempotent ==
    rr = "returned" =>
        \A j \in DOMAIN nodes :
            nodes[j].score =
                retrieved[PosOf(retrieved, nodes[j].idx)].score
                    + lamda * BestSim(nodes[j].node_id)

-----------------------------------------------------------------------------
(* HyPE retrieval: the two paths *)

\* the candidate ids of a returned list, in its order
IdsOf(list) == [i \in DOMAIN list |-> list[i].node_id]

\* C29: retrieve_chunks returns the candidates retrieve_top_chunks returns
\* for the same pool, query vector and top_k, in the same order, hence as
\* many as the smaller of top_k and the number of distinct candidate ids.
C29_FaissAgreesWithBruteForce ==
    hy = "chunks" =>
        /\ IdsOf(top_nodes) = IdsOf(retrieve_top_chunks(q_embed, E, top_k).top_nodes)
        /\ Len(top_nodes) = Min({top_k, Cardinality(DistinctIds)})

-----------------------------------------------------------------------------
(* Self-RAG: self_RAG and the four judges it calls *)

MaxContexts == 2

\* str.lower()
lower(t) ==
    [i \in DOMAIN t |->
        IF \E n \in DOMAIN UpperCase : UpperCase[n] = t[i]
        THEN LowerCase[CHOOSE n \in DOMAIN UpperCase : UpperCase[n] = t[i]]
        ELSE t[i]]

\* sub in t
Contains(t, sub) ==
    \E i \in 0..(Len(t) - Len(sub)) : SubSeq(t, i + 1, i + Len(sub)) = sub

YES == <<"y", "e", "s">>
NO == <<"n", "o">>
RELEVANT == <<"r", "e", "l", "e", "v", "a", "n", "t">>
IRRELEVANT == <<"i", "r">> \o RELEVANT
FULLY == <<"f", "u", "l", "l", "y">>
PARTIALLY == <<"p", "a", "r", "t", "i", "a", "l", "l", "y">>
SUPPORT == <<"s", "u", "p", "p", "o", "r", "t">>
SUPPORTED == SUPPORT \o <<"e", "d">>
NO_SUPPORT == NO \o <<" ">> \o SUPPORT
NOT_SUPPORTED == <<"n", "o", "t", " ">> \o SUPPORTED

\* the labels support_response returns
FullySupported == <<"F">> \o Tail(FULLY) \o <<" ">> \o SUPPORTED
PartiallySupported == <<"P">> \o Tail(PARTIALLY) \o <<" ">> \o SUPPORTED
NoSupport == <<"N", "o", " ">> \o SUPPORT
Unclear == <<"U", "n", "c", "l", "e", "a", "r">>

\* 'fully supported', the label self_RAG's selection looks for
fully_supported == FULLY \o <<" ">> \o SUPPORTED

\* what the LLM may answer to "is retrieval required"
RetrievalAnswers == {<<"Y", "e", "s">>, <<" ", "N", "o", "\n">>, <<"m", "a", "y", "b", "e">>}

\* what the LLM may answer about one document
RelevanceAnswers == {<<"R">> \o Tail(RELEVANT), IRRELEVANT, <<"u", "n", "s", "u", "r", "e">>}

\* what the LLM may answer about the support of a response
SupportAnswers == {<<"F">> \o Tail(FULLY), PARTIALLY \o <<"\n">>, NO_SUPPORT, <<"?">>}

\* what the utility LLM call may do: raise, or answer a text
UtilityOutcomes ==
    {[raises |-> TRUE, content |-> <<>>]} \cup
    [raises : {FALSE}, content : {<<"2">>, <<"5", "\n">>, <<"7">>, <<"-", "1">>, <<"o", "k">>}]

\* retrieval_required: "yes" wins, then "no", anything else means yes
retrieval_required(content) ==
    LET ans == lower(strip(content))
    IN  IF Contains(ans, YES) THEN TRUE
        ELSE IF Contains(ans, NO) THEN FALSE
        ELSE TRUE

\* is_context_relevant
is_context_relevant(content) ==
    LET ans == lower(strip(content))
    IN  Contains(ans, RELEVANT) /\ ~Contains(ans, IRRELEVANT)

\* support_response: the label for the LLM's answer
support_response(content) ==
    LET result == lower(strip(content))
    IN  IF Contains(result, FULLY) THEN FullySupported
        ELSE IF Contains(result, PARTIALLY) THEN PartiallySupported
        ELSE IF Contains(result, NO_SUPPORT) \/ Contains(result, NOT_SUPPORTED) THEN NoSupport
        ELSE Unclear

Digits == <<"0", "1", "2", "3", "4", "5", "6", "7", "8", "9">>

IsDigits(t) == t # <<>> /\ \A i \in DOMAIN t : \E d \in DOMAIN Digits : Digits[d] = t[i]

RECURSIVE DigitsValue(_)
DigitsValue(t) ==
    IF t = <<>> THEN 0
    ELSE 10 * DigitsValue(SubSeq(t, 1, Len(t) - 1))
         + (CHOOSE d \in DOMAIN Digits : Digits[d] = t[Len(t)]) - 1

\* int(result): an optional sign and decimal digits, ValueError otherwise
IsInt(t) == IsDigits(t) \/ (t # <<>> /\ Head(t) \in {"-", "+"} /\ IsDigits(Tail(t)))

int(t) ==
    IF IsDigits(t) THEN DigitsValue(t)
    ELSE IF Head(t) = "-" THEN 0 - DigitsValue(Tail(t))
    ELSE DigitsValue(Tail(t))

\* utility_response: the answer clamped into 1..5, -1 when it is no integer
utility_response(content) ==
    LET result == strip(content)
    IN  IF IsInt(result) THEN Min({Max({int(result), 1}), 5}) ELSE -1

\* key=lambda x: (x[1] == 'fully supported', x[2]) compared as Python tuples
KeyLess(x, y) ==
    LET fx == x.support = fully_supported
        fy == y.support = fully_supported
    IN  (~fx /\ fy) \/ (fx = fy /\ x.utility < y.utility)

\* a selection by the utility alone
final_best_by_utility(rs) ==
    rs[Min({i \in DOMAIN rs : \A j \in DOMAIN rs : rs[j].utility <= rs[i].utility})]

\* max(responses, key=...): the first of the responses no other one beats
final_best_answer(rs) ==
    rs[Min({i \in DOMAIN rs : \A j \in DOMAIN rs : ~KeyLess(rs[i], rs[j])})]

\* the positions of the documents judged relevant, in retrieval order
relevant_contexts(rel) ==
    SelectSeq([i \in DOMAIN rel |-> i], LAMBDA i : is_context_relevant(rel[i]))

\* the loop over relevant_contexts: one response per relevant document, with
\* its support label and its utility (0 when utility_response raises)
Responses(rel, sup, util) ==
    LET rc == relevant_contexts(rel)
    IN  [j \in DOMAIN rc |->
            [context |-> rc[j],
             support |-> lower(strip(support_response(sup[rc[j]]))),
             utility |-> IF util[rc[j]].raises THEN 0
                         ELSE utility_response(util[rc[j]].content)]]

PrintedScore(line, context, support, utility) ==
    [line |-> line, context |-> context, support |-> support, utility |-> utility]

\* self_RAG(query, retriever) for the answers of its collaborators: need, the
\* answer about retrieval; rel, sup, util, per retrieved document the answers
\* about relevance, support and utility; direct, the utility call of the
\* branch without retrieval.  [sr, contexts, responses, answer, printed]
self_RAG(need, rel, sup, util, direct) ==
    IF retrieval_required(need)
    THEN IF relevant_contexts(rel) = <<>>
         THEN [sr |-> "no_context", contexts |-> rel, responses |-> <<>>,
               answer |-> [from |-> "No relevant context found.", context |-> 0],
               printed |-> <<>>]
         ELSE LET rs == Responses(rel, sup, util)
                  best == final_best_answer(rs)
              IN  [sr |-> "selected", contexts |-> rel, responses |-> rs,
                   answer |-> [from |-> "context", context |-> best.context],
                   printed |-> <<PrintedScore("Selected Best Response", best.context,
                                              best.support, best.utility)>>]
    ELSE IF direct.raises
         THEN [sr |-> "raised", contexts |-> <<>>, responses |-> <<>>,
               answer |-> <<>>, printed |-> <<>>]
         ELSE [sr |-> "direct", contexts |-> <<>>, responses |-> <<>>,
               answer |-> [from |-> "No retrieval needed", context |-> 0],
               printed |-> <<PrintedScore("Direct Response Utility Score", 0, <<>>,
                                          utility_response(direct.content))>>]

InitSelfRag == SfIdle /\ RrIdle /\ CrIdle /\ HyIdle /\ RfIdle /\ BdIdle

\* one retrieved document: the answer about its relevance and, when it is
\* judged relevant, the answers about the response generated from it (for
\* the others the support and utility judges are never called)
NotAsked == [raises |-> FALSE, content |-> <<>>]

Documents ==
    [rel : {a \in RelevanceAnswers : is_context_relevant(a)},
     sup : SupportAnswers, util : UtilityOutcomes]
    \cup [rel : {a \in RelevanceAnswers : ~is_context_relevant(a)},
          sup : {<<>>}, util : {NotAsked}]

SelfRagReturns(r) ==
    /\ sr' = r.sr
    /\ contexts' = r.contexts
    /\ responses' = r.responses
    /\ answer' = r.answer
    /\ printed' = r.printed

\* notebook cell:  self_RAG(query, retriever)
SelfRAG ==
    /\ sr = "idle"
    /\ \E need \in RetrievalAnswers :
          \/ /\ ~retrieval_required(need)
             /\ \E direct \in UtilityOutcomes :
                   SelfRagReturns(self_RAG(need, <<>>, <<>>, <<>>, direct))
          \/ /\ retrieval_required(need)
             /\ \E n \in 0..MaxContexts :
                \E docs \in [1..n -> Documents] :
                   SelfRagReturns(self_RAG(need,
                                           [i \in 1..n |-> docs[i].rel],
                                           [i \in 1..n |-> docs[i].sup],
                                           [i \in 1..n |-> docs[i].util],
                                           NotAsked))
    /\ UNCHANGED <<rrVars, crVars, hyVars, rfVars, bdVars>>

NextSelfRag == SelfRAG

SpecSelfRag == InitSelfRag /\ [][NextSelfRag]_vars

-----------------------------------------------------------------------------
(* Self-RAG: claims *)

SelfRagReturned == sr \in {"direct", "no_context", "selected"}

\* C24: a self_RAG call that returned a response printed the utility score of
\* that response, whichever branch it took.
C24_UtilityAlwaysPrinted ==
    SelfRagReturned =>
        /\ printed # <<>>
        /\ printed[Len(printed)].context = answer.context
        /\ printed[Len(printed)].utility \in (1..5) \cup {-1, 0}

\* the response of responses that was returned
Selected == CHOOSE r \in {responses[i] : i \in DOMAIN responses} : r.context = answer.context

IsFully(r) == r.support = fully_supported

\* C30: when a document was judged relevant the returned response is one
\* generated from a relevant document; it is fully supported when any
\* response is; no response of its support class has a greater utility; and
\* none with the same support class and utility comes from an earlier document.
C30_AnswerSelection ==
    (sr \in {"no_context", "selected"}
       /\ \E i \in DOMAIN contexts : is_context_relevant(contexts[i])) =>
        /\ sr = "selected"
        /\ answer.context \in DOMAIN contexts
        /\ is_context_relevant(contexts[answer.context])
        /\ (\E i \in DOMAIN responses : IsFully(responses[i])) => IsFully(Selected)
        /\ \A i \in DOMAIN responses :
              IsFully(responses[i]) = IsFully(Selected)
                  => /\ responses[i].utility <= Selected.utility
                     /\ responses[i].utility = Selected.utility
                           => responses[i].context >= Selected.context

\* a fully supported response of utility 2 returned although the response to
\* an earlier document has utility 5 and is only partially supported
C30_Witness ==
    /\ sr = "selected"
    /\ Len(responses) = 2
    /\ ~IsFully(responses[1]) /\ responses[1].utility = 5
    /\ IsFully(responses[2]) /\ responses[2].utility = 2
    /\ answer.context = responses[2].context

\* two responses of the same support class and utility: the earlier document's
C30_WitnessTie ==
    /\ sr = "selected"
    /\ Len(responses) = 2
    /\ IsFully(responses[1]) = IsFully(responses[2])
    /\ responses[1].utility = responses[2].utility
    /\ answer.context = responses[1].context

-----------------------------------------------------------------------------
(* CRAG: knowledge_refine and the LLM that does the refinement *)

MaxContent == 3

\* the knowledge strips the LLM cuts the documents of source_nodes into
StripNames == {"s1", "s2"}

\* the relevance scores the LLM may give a strip, in 1/SimScale: around the
\* 0.6 of the prompt
StripScores == {50, 60, 90}

\* the prompt's threshold: "Keep only those strips with score >= 0.6"
KeepScore == 60

\* response.content: the strips the LLM wrote out, in its order, with the
\* line breaks it put before, between and after them
RefineContents == UNION {[1..n -> StripNames \cup {"\n"}] : n \in 0..MaxContent}

\* knowledge_refine(query, source_nodes): the LLM's answer, stripped of the
\* white space around it; nothing else is done to it
knowledge_refine(content) == strip(content)

InitRefine == RfIdle /\ RrIdle /\ CrIdle /\ HyIdle /\ SfIdle /\ BdIdle

\* notebook cell:  a = knowledge_refine(query): the LLM scores the strips and
\* answers; its answer is returned
Refine ==
    /\ rf = "idle"
    /\ strip_score' \in [StripNames -> StripScores]
    /\ \E content \in RefineContents : refined' = knowledge_refine(content)
    /\ rf' = "returned"
    /\ UNCHANGED <<rrVars, crVars, hyVars, sfVars, bdVars>>

NextRefine == Refine

SpecRefine == InitRefine /\ [][NextRefine]_vars

\* C23: the text knowledge_refine returned holds a strip if and only if the
\* strip's relevance score is at least 0.6; when every strip scores below
\* 0.6 the text is empty.
C23_KeepsStripsAtLeastPointSix ==
    rf = "returned" =>
        \A s \in StripNames :
            (\E i \in DOMAIN refined : refined[i] = s) <=> strip_score[s] >= KeepScore

-----------------------------------------------------------------------------
(* HyQe: building the pool, the cache file, the per-query cells *)

MaxBuilds == 2

\* the node lists retriever.retrieve(query) gives the builds
BuildNodeLists == {<<>>, <<5000>>, <<5000, 5000>>}

\* the question vectors of one node: what get_text_embedding_batch gives for
\* the questions the LLM wrote; cosines 0.96 and 0 against the query <<4, 3>>
QuestionLists == {<< <<3, 4>> >>, << <<-3, 4>> >>, << <<3, 4>>, <<-3, 4>> >>}

\* llm.invoke(prompt) for one node: it raises, or answers 'No Content' (or
\* no line at all), or writes questions
QuestionOutcomes ==
    {[kind |-> "raises", embs |-> <<>>], [kind |-> "no_content", embs |-> <<>>]}
    \cup [kind : {"questions"}, embs : QuestionLists]

\* the query vectors of the per-query cells
PipelineQueryVecs == {<<4, 3>>, <<3, 4>>}

PairsOf(node_id, embs) == [i \in DOMAIN embs |-> [emb |-> embs[i], node_id |-> node_id]]

\* each question embedded and appended on its own: the first done questions
\* are in the pool when the embedder fails
EmbedOneByOne(pool, node_id, embs, done) ==
    pool \o PairsOf(node_id, SubSeq(embs, 1, done))

\* question_embeddings = embed_model.get_text_embedding_batch(questions), then
\* the loop of appends: done is the number of questions the embedder got
\* through; when it fails before the last one the call raises and nothing of
\* this node has been appended
EmbedAndAppend(pool, node_id, embs, done) ==
    IF done = Len(embs) THEN pool \o PairsOf(node_id, embs) ELSE pool

InitHyqe == RrIdle /\ BdIdle /\ CrIdle /\ HyIdle /\ SfIdle /\ RfIdle

\* nodes = retriever.retrieve(query), and the call of
\* generate_hypothetical_query_embeddings(nodes, llm, embed_model) up to its
\* loop; the global embedding_pairs is left as it is
StartBuild ==
    /\ cell = "idle"
    /\ builds < MaxBuilds
    /\ \E f \in BuildNodeLists :
          /\ retrieved' = MkNodes(f)
          /\ nodes' = MkNodes(f)
          /\ entry' = MkNodes(f)
          /\ todo' = MkNodes(f)
    /\ base' = Len(embedding_pairs)
    /\ asked' = <<>>
    /\ builds' = builds + 1
    /\ cell' = "building"
    /\ rr' = "idle"
    /\ UNCHANGED <<embedding_pairs, query_embedding, lamda, calls, hypo_cache>>
    /\ UNCHANGED <<crVars, hyVars, sfVars, rfVars>>

\* one round of  for node in nodes:  an exception ends the cell
BuildNode ==
    /\ cell = "building"
    /\ todo # <<>>
    /\ \E out \in QuestionOutcomes :
          \/ /\ out.kind = "raises"
             /\ cell' = "idle"
             /\ todo' = <<>>
             /\ UNCHANGED <<embedding_pairs, asked>>
          \/ /\ out.kind = "no_content"
             /\ todo' = Tail(todo)
             /\ UNCHANGED <<embedding_pairs, asked, cell>>
          \/ /\ out.kind = "questions"
             /\ \E done \in 0..Len(out.embs) :
                   /\ embedding_pairs' =
                         EmbedAndAppend(embedding_pairs, Head(todo).node_id, out.embs, done)
                   /\ asked' = Append(asked, [node_id |-> Head(todo).node_id, embs |-> out.embs])
                   /\ IF done = Len(out.embs)
                      THEN todo' = Tail(todo) /\ cell' = cell
                      ELSE todo' = <<>> /\ cell' = "idle"
    /\ UNCHANGED <<retrieved, nodes, entry, query_embedding, lamda, rr, calls>>
    /\ UNCHANGED <<base, builds, hypo_cache>>
    /\ UNCHANGED <<crVars, hyVars, sfVars, rfVars>>

\* return embedding_pairs, in the cell that only builds
BuildReturn ==
    /\ cell = "building"
    /\ todo = <<>>
    /\ cell' = "idle"
    /\ UNCHANGED <<todo, base, asked, builds, hypo_cache>>
    /\ UNCHANGED <<rrVars, crVars, hyVars, sfVars, rfVars>>

\* the cache cell: pickle.dump(embedding_pairs, f) into hypo_cache.pkl opened
\* "wb", then embedding_pairs = pickle.load(f).  A dump that raises leaves a
\* truncated file and the load is not reached.
SaveLoad ==
    /\ cell = "idle"
    /\ \/ /\ hypo_cache' = [written |-> "whole", pairs |-> embedding_pairs]
          /\ embedding_pairs' = hypo_cache'.pairs
       \/ /\ hypo_cache' = [written |-> "partial", pairs |-> <<>>]
          /\ UNCHANGED embedding_pairs
    /\ UNCHANGED <<retrieved, nodes, entry, query_embedding, lamda, rr, calls>>
    /\ UNCHANGED <<cell, todo, base, asked, builds>>
    /\ UNCHANGED <<crVars, hyVars, sfVars, rfVars>>

\* the rest of a per-query cell after the build returned:
\* query_embedding = embed_model.get_query_embedding(query), then
\* nodes_final = compute_final_scores(nodes, embedding_pairs, query_embedding)
PipelineFinish ==
    /\ cell = "building"
    /\ todo = <<>>
    /\ \E q \in PipelineQueryVecs :
          /\ query_embedding' = q
          /\ LET r == compute_final_scores(nodes, embedding_pairs, q, lamda)
             IN  /\ nodes' = r.nodes
                 /\ rr' = IF r.raised THEN "raised" ELSE "returned"
    /\ entry' = nodes
    /\ calls' = calls + 1
    /\ cell' = "idle"
    /\ UNCHANGED <<retrieved, embedding_pairs, lamda>>
    /\ UNCHANGED <<todo, base, asked, builds, hypo_cache>>
    /\ UNCHANGED <<crVars, hyVars, sfVars, rfVars>>

NextBuild == StartBuild \/ BuildNode \/ BuildReturn \/ SaveLoad

SpecBuild == InitHyqe /\ [][NextBuild]_vars

NextHyqe == StartBuild \/ BuildNode \/ PipelineFinish

SpecHyqe == InitHyqe /\ [][NextHyqe]_vars

-----------------------------------------------------------------------------
(* HyQe: claims on the pool *)

\* the pairs the last build has put into the pool
BuiltPairs == SubSeq(embedding_pairs, base + 1, Len(embedding_pairs))

\* the question vectors the last build was given for candidate id
AskedFor(id) ==
    IF \E i \in DOMAIN asked : asked[i].node_id = id
    THEN asked[CHOOSE i \in DOMAIN asked : asked[i].node_id = id].embs
    ELSE <<>>

C21_WitnessBuilding ==
    /\ cell = "building"
    /\ Len(todo) = 1
    /\ Len(hypo_map(BuiltPairs, "a")) = 2
    /\ base > 0

\* C22: the list a per-query cell returns is the one compute_final_scores
\* gives for the query's own candidates, the vectors built for them in this
\* cell, the query vector and lamda: nothing of earlier cells enters.
C22_QueriesIndependent ==
    (cell = "idle" /\ rr = "returned") =>
        nodes = compute_final_scores(entry, BuiltPairs, query_embedding, lamda).nodes

=============================================================================
